---- MODULE Spec2Model ----
(***************************************************************************)
(* Glacier: the global WebGL glass renderer                                *)
(* (demo/src/components/GlobalGlassRenderer.tsx).                          *)
(*                                                                         *)
(* The component is modelled as React runs it: a commit queues the passive *)
(* effects whose dependencies changed (dirty), a flush runs their cleanups *)
(* and then their bodies in declaration order (effectQueue) without any    *)
(* other callback in between, and browser callbacks (animation frames,     *)
(* image events, resize) and the registry calls of the panels interleave   *)
(* between flushes on the one JavaScript thread.                           *)
(*                                                                         *)
(* Lengths are kept in half pixels (a value v stands for v/2 px) so that   *)
(* pixel centres and rectangle centres are integers; alphas are kept in    *)
(* 125ths, the exact range of the edge smoothstep on the half-pixel grid.  *)
(***************************************************************************)
EXTENDS Integers, Sequences, FiniteSets, TLC

VARIABLES
  phase,            \* "init" (not mounted yet) | "mounted" | "unmounted"
  canvasRef,        \* canvasRef.current is an element
  glRef,            \* glRef.current is a context
  programRef,       \* programRef.current is a linked program
  bgTextureRef,     \* bgTextureRef.current is a texture
  rafRef,           \* rafRef.current: 0, or the id of the last requested frame
  rectsRef,         \* rectsRef.current: the Map, as its entries in insertion order
  isReady,          \* state isReady
  dimensions,       \* state dimensions
  backgroundImage,  \* prop backgroundImage
  devicePixelRatio, \* window.devicePixelRatio
  dirty,            \* effects whose dependencies changed since the last flush
  effectQueue,      \* steps left of the flush in progress
  cleanups,         \* effects that returned a cleanup function
  imgs,             \* Image objects whose load is in flight, with their closure
  rafPending,       \* scheduled animation-frame callbacks, with their closure
  created,          \* GPU objects created so far
  released,         \* per GPU object, the delete calls that reached a live context
  contextLost,      \* the WebGL context is lost
  consoleErrors,    \* what console.error has reported
  texImage,         \* image uploaded into the background texture (0: none)
  u_rectCount,      \* uniform u_rectCount
  u_rects,          \* uniform u_rects[], per slot written
  u_rectParams,     \* uniform u_rectParams[], per slot written
  drawCalls,        \* gl.drawArrays calls issued
  frameTex,         \* texImage as it was bound by the last draw
  frameRects,       \* the rects array the last frame drawn collected
  initResult,       \* how the init effect ended ("none" before it ran)
  imgFailed,        \* the latest requested load ended in an error event
  lastOp,           \* the latest registry call, and whether its id was present
  glassParams,      \* the parent's state glassParams, as last rendered (the props)
  paramUpdates,     \* setGlassParams updaters queued for the next render
  versions,         \* every glassParams object rendered so far, in order
  u_params,         \* the optical uniforms, as the last draw uploaded them
  visible,          \* LiquidGlassCursor: state visible
  body,             \* the child nodes of document.body, in document order
  filterCalls       \* the injectFilters and removeFilters calls made so far

vars == <<phase, canvasRef, glRef, programRef, bgTextureRef, rafRef, rectsRef,
          isReady, dimensions, backgroundImage, devicePixelRatio, dirty,
          effectQueue, cleanups, imgs, rafPending, created, released,
          contextLost, consoleErrors, texImage, u_rectCount, u_rects,
          u_rectParams, drawCalls, frameTex, frameRects, initResult,
          imgFailed, lastOp, glassParams, paramUpdates, versions, u_params,
          visible, body, filterCalls>>

regVars == <<rectsRef, lastOp>>
gpuVars == <<created, released, contextLost>>
uniformVars == <<u_rectCount, u_rects, u_rectParams>>
frameVars == <<u_rectCount, u_rects, u_rectParams, drawCalls, frameTex, frameRects,
               u_params>>
paramVars == <<glassParams, paramUpdates, versions>>
refVars == <<glRef, programRef, bgTextureRef>>
docVars == <<body, filterCalls>>
propVars == <<dimensions, backgroundImage, devicePixelRatio, visible, docVars>>

-----------------------------------------------------------------------------
(* Program constants *)

\* #define MAX_RECTS 32: the length of u_rects[] and u_rectParams[]
MAX_RECTS == 32
\* Math.min(rects.length, 32)
RectCountCap == 32
\* for (let i = 0; i < 32; i++)
UploadSlots == 32

(* Bounds of the model *)

\* region ids the panels of the registry specification use: 1..MaxIds
MaxIds == 2
\* panels mounted one after the other in the cap specification
MaxPanels == 33
\* image loads in flight at once
MaxInFlight == 2
\* draw calls followed
MaxFrames == 2
\* setParams calls followed
MaxSetParams == 2
\* re-initializations of LiquidGlass followed
MaxReinits == 2

\* injectFilters and removeFilters calls in a behaviour
MaxFilterCalls == 4

Ids == 1..MaxIds
Images == {1, 2}
DimChoices == {800, 1024}
\* window.devicePixelRatio of the display: a high-density one
DprChoices == {2}

Min(a, b) == IF a < b THEN a ELSE b
Max(a, b) == IF a > b THEN a ELSE b
Abs(a) == IF a < 0 THEN -a ELSE a

-----------------------------------------------------------------------------
(* The registry: rectsRef.current, a Map<string, GlassRect> *)

\* interface GlassRect; geometry in CSS pixels
GlassRect(id, x, y, w, h, r, t) ==
  [id |-> id, x |-> x, y |-> y, width |-> w, height |-> h,
   roundness |-> r, intensity |-> t]

\* the rectangles the panels of the model report: A, and B overlapping A
RectChoices(ids) ==
  { GlassRect(id, g[1], g[2], 8, 8, 0, t) :
      id \in ids, g \in {<<0, 0>>, <<4, 4>>}, t \in {"normal"} }

\* Partial<GlassRect> values passed to updateGlass
Partials == { [x |-> 4, y |-> 4], [x |-> 0, y |-> 0] }

MapHas(m, k) == \E i \in 1..Len(m) : m[i].key = k
MapIndex(m, k) == CHOOSE i \in 1..Len(m) : m[i].key = k
MapGet(m, k) == m[MapIndex(m, k)].val
\* faulty variant: the entry is pushed without looking the key up
MapSetAppend(m, k, v) == Append(m, [key |-> k, val |-> v])

\* faulty variant: an existing key is deleted and inserted again
MapSetLast(m, k, v) ==
  Append(SelectSeq(m, LAMBDA e : e.key /= k), [key |-> k, val |-> v])

\* Map.prototype.set: an existing key keeps its place, a new key goes last
MapSet(m, k, v) ==
  IF MapHas(m, k)
    THEN [m EXCEPT ![MapIndex(m, k)] = [key |-> k, val |-> v]]
    ELSE Append(m, [key |-> k, val |-> v])
\* Map.prototype.delete
MapDelete(m, k) == SelectSeq(m, LAMBDA e : e.key /= k)
\* Array.from(map.values())
MapValues(m) == [i \in 1..Len(m) |-> m[i].val]
\* faulty variant: { ...updates, ...existing }
SpreadUnder(existing, updates) ==
  [f \in (DOMAIN existing) \cup (DOMAIN updates) |->
     IF f \in DOMAIN existing THEN existing[f] ELSE updates[f]]

\* { ...existing, ...updates }
Spread(existing, updates) ==
  [f \in (DOMAIN existing) \cup (DOMAIN updates) |->
     IF f \in DOMAIN updates THEN updates[f] ELSE existing[f]]

NoOp == [op |-> "none", had |-> FALSE]

RegisterGlass(rect) ==
  /\ effectQueue = <<>>
  /\ rectsRef' = MapSet(rectsRef, rect.id, rect)
  /\ lastOp' = [op |-> "register", had |-> MapHas(rectsRef, rect.id)]
  /\ UNCHANGED <<phase, canvasRef, refVars, rafRef, isReady, propVars, dirty,
                 effectQueue, cleanups, imgs, rafPending, gpuVars, consoleErrors,
                 texImage, frameVars, initResult, imgFailed,
                 paramVars>>

UnregisterGlass(id) ==
  /\ effectQueue = <<>>
  /\ rectsRef' = MapDelete(rectsRef, id)
  /\ lastOp' = [op |-> "unregister", had |-> MapHas(rectsRef, id)]
  /\ UNCHANGED <<phase, canvasRef, refVars, rafRef, isReady, propVars, dirty,
                 effectQueue, cleanups, imgs, rafPending, gpuVars, consoleErrors,
                 texImage, frameVars, initResult, imgFailed,
                 paramVars>>

\* faulty variant: an update for an unknown id inserts what it was given
UpdateEntryUpsert(m, id, updates) ==
  MapSet(m, id, IF MapHas(m, id) THEN Spread(MapGet(m, id), updates) ELSE updates)

\* const existing = get(id); if (existing) set(id, { ...existing, ...updates })
UpdateEntry(m, id, updates) ==
  IF MapHas(m, id) THEN MapSet(m, id, Spread(MapGet(m, id), updates)) ELSE m

UpdateGlass(id, updates) ==
  /\ effectQueue = <<>>
  /\ rectsRef' = UpdateEntry(rectsRef, id, updates)
  /\ lastOp' = [op |-> "update", had |-> MapHas(rectsRef, id)]
  /\ UNCHANGED <<phase, canvasRef, refVars, rafRef, isReady, propVars, dirty,
                 effectQueue, cleanups, imgs, rafPending, gpuVars, consoleErrors,
                 texImage, frameVars, initResult, imgFailed,
                 paramVars>>

-----------------------------------------------------------------------------
(* The optical parameters: the parent's state glassParams, passed down as props *)

\* the fields of GlassParams the renderer takes as props and uploads
ParamFields == {"refraction", "dispersion", "blur", "fresnel", "glare", "liquidWobble"}

\* useState<GlassParams>({ refraction: 1.52, ... }), in hundredths
DefaultParams ==
  [refraction |-> 152, dispersion |-> 1200, blur |-> 0, fresnel |-> 60,
   glare |-> 30, liquidWobble |-> 40]

\* Partial<GlassParams> values passed to setParams: the preset `water`, and
\* the blur slider
ParamPartials ==
  { [refraction |-> 133, dispersion |-> 800, blur |-> 200, fresnel |-> 40,
     glare |-> 20, liquidWobble |-> 80],
    [blur |-> 400] }

\* the uniforms before any draw
UnsetParams == [f \in ParamFields |-> 0]

\* faulty variant: ({ ...params, ...newParams }) over the params of the
\* render, so the last call replaces the earlier ones
ApplyUpdatesStale(prev, updates) ==
  IF updates = <<>>
    THEN prev
    ELSE Spread(prev, updates[Len(updates)])

\* prev => ({ ...prev, ...newParams }), for every updater queued, in order
RECURSIVE ApplyUpdates(_, _)
ApplyUpdates(prev, updates) ==
  IF updates = <<>>
    THEN prev
    ELSE ApplyUpdates(Spread(prev, Head(updates)), Tail(updates))

\* the dependencies of the loop effect among the optical props
LoopDeps == {"refraction", "dispersion", "blur", "fresnel", "glare", "liquidWobble"}

\* setParams(newParams): setGlassParams(prev => ({ ...prev, ...newParams }))
SetParams(newParams) ==
  /\ effectQueue = <<>>
  /\ (Len(versions) - 1) + Len(paramUpdates) < MaxSetParams
  /\ paramUpdates' = Append(paramUpdates, newParams)
  /\ UNCHANGED <<phase, canvasRef, refVars, rafRef, regVars, isReady, propVars, dirty,
                 effectQueue, cleanups, imgs, rafPending, gpuVars, consoleErrors,
                 texImage, frameVars, initResult, imgFailed, glassParams, versions>>

\* React renders the parent with the queued updaters applied and commits: the
\* renderer gets the new props, and the loop effect is queued when one of its
\* dependencies changed
RenderParams ==
  /\ effectQueue = <<>>
  /\ paramUpdates /= <<>>
  /\ glassParams' = ApplyUpdates(glassParams, paramUpdates)
  /\ paramUpdates' = <<>>
  /\ versions' = Append(versions, glassParams')
  /\ dirty' = IF phase = "mounted" /\ \E f \in LoopDeps : glassParams'[f] /= glassParams[f]
                THEN dirty \cup {"loop"}
                ELSE dirty
  /\ UNCHANGED <<phase, canvasRef, refVars, rafRef, regVars, isReady, propVars,
                 effectQueue, cleanups, imgs, rafPending, gpuVars, consoleErrors,
                 texImage, frameVars, initResult, imgFailed>>

-----------------------------------------------------------------------------
(* React: commits and passive-effect flushes *)

EffectOrder == <<"init", "load", "loop">>

FlushSteps(kind, names) ==
  SelectSeq([i \in 1..Len(EffectOrder) |-> [kind |-> kind, name |-> EffectOrder[i]]],
            LAMBDA s : s.name \in names)

\* an update flush runs the cleanups of the changed effects, then their bodies;
\* an unmount runs every cleanup
BuildQueue ==
  IF phase = "unmounted"
    THEN FlushSteps("cleanup", cleanups)
    ELSE FlushSteps("cleanup", dirty \cap cleanups) \o FlushSteps("effect", dirty)

Step(kind, name) ==
  /\ effectQueue /= <<>>
  /\ Head(effectQueue) = [kind |-> kind, name |-> name]
  /\ effectQueue' = Tail(effectQueue)

\* requestAnimationFrame returns an id no scheduled callback and no stored
\* handle carries
NewRafId ==
  CHOOSE n \in 1..(Cardinality(rafPending) + 2) :
    /\ n /= rafRef
    /\ \A cb \in rafPending : cb.id /= n
    /\ \A m \in 1..(n - 1) : m = rafRef \/ \E cb \in rafPending : cb.id = m

\* faulty variant: the callback of the id is the one that is kept
CancelRafOthers(pending, id) == { cb \in pending : cb.id = id }

\* cancelAnimationFrame(id)
CancelRaf(pending, id) == { cb \in pending : cb.id /= id }

Mount ==
  /\ phase = "init"
  /\ phase' = "mounted"
  /\ canvasRef' = TRUE
  /\ dirty' = {"init", "load", "loop"}
  /\ UNCHANGED <<refVars, rafRef, regVars, isReady, propVars, effectQueue, cleanups,
                 imgs, rafPending, gpuVars, consoleErrors, texImage, frameVars,
                 initResult, imgFailed,
                 paramVars>>

Unmount ==
  /\ phase = "mounted"
  /\ effectQueue = <<>>
  /\ phase' = "unmounted"
  /\ canvasRef' = FALSE
  /\ dirty' = {"unmount"}
  /\ UNCHANGED <<refVars, rafRef, regVars, isReady, propVars, effectQueue, cleanups,
                 imgs, rafPending, gpuVars, consoleErrors, texImage, frameVars,
                 initResult, imgFailed,
                 paramVars>>

BeginFlush ==
  /\ effectQueue = <<>>
  /\ dirty /= {}
  /\ effectQueue' = BuildQueue
  /\ dirty' = {}
  /\ UNCHANGED <<phase, canvasRef, refVars, rafRef, regVars, isReady, propVars,
                 cleanups, imgs, rafPending, gpuVars, consoleErrors, texImage,
                 frameVars, initResult, imgFailed,
                 paramVars>>

\* window 'resize': setDimensions({...}) always stores a new object
Resize(d) ==
  /\ phase = "mounted"
  /\ effectQueue = <<>>
  /\ initResult /= "none"
  /\ dimensions' = d
  /\ dirty' = dirty \cup {"loop"}
  /\ UNCHANGED <<phase, canvasRef, refVars, rafRef, regVars, isReady, backgroundImage,
                 devicePixelRatio, visible, docVars, effectQueue, cleanups, imgs,
                 rafPending, gpuVars,
                 consoleErrors, texImage, frameVars, initResult, imgFailed,
                 paramVars>>

\* the parent renders the component with another backgroundImage
BackgroundChange(src) ==
  /\ phase = "mounted"
  /\ effectQueue = <<>>
  /\ src /= backgroundImage
  /\ Len(imgs) < MaxInFlight
  /\ backgroundImage' = src
  /\ dirty' = dirty \cup {"load"}
  /\ UNCHANGED <<phase, canvasRef, refVars, rafRef, regVars, isReady, dimensions,
                 devicePixelRatio, visible, docVars, effectQueue, cleanups, imgs,
                 rafPending, gpuVars,
                 consoleErrors, texImage, frameVars, initResult, imgFailed,
                 paramVars>>

\* 'webglcontextlost'
LoseContext ==
  /\ effectQueue = <<>>
  /\ glRef
  /\ ~contextLost
  /\ contextLost' = TRUE
  /\ UNCHANGED <<phase, canvasRef, refVars, rafRef, regVars, isReady, propVars, dirty,
                 effectQueue, cleanups, imgs, rafPending, created, released,
                 consoleErrors, texImage, frameVars, initResult, imgFailed,
                 paramVars>>

-----------------------------------------------------------------------------
(* The init effect and its cleanup *)

GpuObjects == {"vertexShader", "fragmentShader", "program", "positionBuffer", "bgTexture"}

InitOutcomes == {"noContext", "vsFail", "fsFail", "vsfsFail", "programNull", "linkFail", "ok"}
CompileFailures == {"vsFail", "fsFail", "vsfsFail"}

\* createShader: the shader objects it creates and those it deletes again
ShadersCreated(outcome) ==
  IF outcome = "noContext" THEN {} ELSE {"vertexShader", "fragmentShader"}
ShadersDeleted(outcome) ==
  CASE outcome = "vsFail" -> {"vertexShader"}
    [] outcome = "fsFail" -> {"fragmentShader"}
    [] outcome = "vsfsFail" -> {"vertexShader", "fragmentShader"}
    [] OTHER -> {}

\* what the effect creates beyond the shaders
InitCreated(outcome) ==
  ShadersCreated(outcome) \cup
  CASE outcome = "linkFail" -> {"program"}
    [] outcome = "ok" -> {"program", "positionBuffer", "bgTexture"}
    [] OTHER -> {}

InitErrors(outcome) ==
  CASE outcome = "noContext" -> {"WebGL2 not supported"}
    [] outcome \in CompileFailures -> {"Shader compile error"}
    [] outcome = "linkFail" -> {"Program link error"}
    [] OTHER -> {}

\* faulty variant: the return after the link error is missing
InitCompletesAfterLinkError(outcome) == outcome \in {"ok", "linkFail"}

\* whether the effect reaches programRef.current = program and the lines after it
InitCompletes(outcome) == outcome = "ok"

Release(rel, objs) == [o \in GpuObjects |-> IF o \in objs THEN rel[o] + 1 ELSE rel[o]]

InitEffect(outcome) ==
  /\ Step("effect", "init")
  /\ IF ~canvasRef
       THEN /\ initResult' = "noCanvas"
            /\ UNCHANGED <<refVars, created, released, consoleErrors, cleanups>>
       ELSE /\ initResult' = outcome
            /\ glRef' = (outcome /= "noContext")
            /\ created' = created \cup InitCreated(outcome)
            /\ released' = Release(released, ShadersDeleted(outcome))
            /\ consoleErrors' = consoleErrors \cup InitErrors(outcome)
            /\ programRef' = InitCompletes(outcome)
            /\ bgTextureRef' = InitCompletes(outcome)
            /\ cleanups' = IF InitCompletes(outcome) THEN cleanups \cup {"init"} ELSE cleanups
  /\ UNCHANGED <<phase, canvasRef, rafRef, regVars, isReady, propVars, dirty, imgs,
                 rafPending, contextLost, texImage, frameVars, imgFailed,
                 paramVars>>

\* the objects the cleanup passes to gl.delete*
CleanupDeletes == {"program", "vertexShader", "fragmentShader"} \cup
                  (IF bgTextureRef THEN {"bgTexture"} ELSE {})

\* faulty variant: the pending frame is not cancelled
CancelNothing == rafPending

\* if (rafRef.current) cancelAnimationFrame(rafRef.current)
CancelPending == IF rafRef /= 0 THEN CancelRaf(rafPending, rafRef) ELSE rafPending

\* a delete against a lost context releases nothing, whether it throws into the
\* catch block or returns silently
InitCleanup ==
  /\ Step("cleanup", "init")
  /\ rafPending' = CancelPending
  /\ bgTextureRef' = FALSE
  /\ glRef' = FALSE
  /\ programRef' = FALSE
  /\ released' = IF contextLost THEN released ELSE Release(released, CleanupDeletes)
  /\ cleanups' = cleanups \ {"init"}
  /\ UNCHANGED <<phase, canvasRef, rafRef, regVars, isReady, propVars, dirty, imgs,
                 created, contextLost, consoleErrors, texImage, frameVars, initResult,
                 imgFailed,
                 paramVars>>

-----------------------------------------------------------------------------
(* The background image effect *)

LoadEffect ==
  /\ Step("effect", "load")
  /\ IF ~glRef \/ ~bgTextureRef
       THEN UNCHANGED <<imgs, cleanups, imgFailed>>
       ELSE /\ imgs' = Append(imgs, [src |-> backgroundImage, isMounted |-> TRUE])
            /\ cleanups' = cleanups \cup {"load"}
            /\ imgFailed' = FALSE
  /\ UNCHANGED <<phase, canvasRef, refVars, rafRef, regVars, isReady, propVars, dirty,
                 rafPending, gpuVars, consoleErrors, texImage, frameVars, initResult,
                 paramVars>>

\* return () => { isMounted = false; }
LoadCleanup ==
  /\ Step("cleanup", "load")
  /\ imgs' = [i \in 1..Len(imgs) |-> [imgs[i] EXCEPT !.isMounted = FALSE]]
  /\ cleanups' = cleanups \ {"load"}
  /\ UNCHANGED <<phase, canvasRef, refVars, rafRef, regVars, isReady, propVars, dirty,
                 rafPending, gpuVars, consoleErrors, texImage, frameVars, initResult,
                 imgFailed,
                 paramVars>>

RemoveAt(q, i) == [j \in 1..(Len(q) - 1) |-> IF j < i THEN q[j] ELSE q[j + 1]]

\* faulty variant: isMounted is not tested
OnloadProceedsLate(img) == glRef /\ bgTextureRef

\* whether img.onload gets past its first line
OnloadProceeds(img) == img.isMounted /\ glRef /\ bgTextureRef

\* whether the try block reaches setIsReady(true): texImage2D throws for a
\* tainted image; against a lost context it throws or returns without effect
OnloadSetsReady(img, throws) == OnloadProceeds(img) /\ ~throws

\* whether the pixels reach the texture
OnloadUploads(img, throws) == OnloadSetsReady(img, throws) /\ ~contextLost

\* img.onload; setIsReady(true) re-renders a mounted component whose isReady
\* was false
ImgOnload(i, throws) ==
  /\ effectQueue = <<>>
  /\ i \in 1..Len(imgs)
  /\ imgs' = RemoveAt(imgs, i)
  /\ texImage' = IF OnloadUploads(imgs[i], throws) THEN imgs[i].src ELSE texImage
  /\ IF OnloadSetsReady(imgs[i], throws) /\ phase = "mounted" /\ ~isReady
       THEN isReady' = TRUE /\ dirty' = dirty \cup {"loop"}
       ELSE UNCHANGED <<isReady, dirty>>
  /\ UNCHANGED <<phase, canvasRef, refVars, rafRef, regVars, propVars, effectQueue,
                 cleanups, rafPending, gpuVars, consoleErrors, frameVars, initResult,
                 imgFailed,
                 paramVars>>

\* the image fails to load: no onerror handler is installed
ImgError(i) ==
  /\ effectQueue = <<>>
  /\ i \in 1..Len(imgs)
  /\ imgs' = RemoveAt(imgs, i)
  /\ imgFailed' = (imgs[i].isMounted \/ imgFailed)
  /\ UNCHANGED <<phase, canvasRef, refVars, rafRef, regVars, isReady, propVars, dirty,
                 effectQueue, cleanups, rafPending, gpuVars, consoleErrors, texImage,
                 frameVars, initResult,
                 paramVars>>

-----------------------------------------------------------------------------
(* The render loop effect and the frame callback *)

\* faulty variant: the loop does not wait for isReady
LoopStartsUnready == glRef /\ programRef

\* if (!isReady) return; ... if (!gl || !program) return;
LoopStarts == isReady /\ glRef /\ programRef

\* the props `render` closes over: those of the render that ran the effect
ClosureParams == [f \in ParamFields |-> glassParams[f]]

LoopEffect ==
  /\ Step("effect", "loop")
  /\ IF LoopStarts
       THEN /\ rafRef' = NewRafId
            /\ rafPending' = rafPending \cup
                 {[id |-> NewRafId, dims |-> dimensions, dpr |-> devicePixelRatio,
                   params |-> ClosureParams, ver |-> Len(versions)]}
            /\ cleanups' = cleanups \cup {"loop"}
       ELSE UNCHANGED <<rafRef, rafPending, cleanups>>
  /\ UNCHANGED <<phase, canvasRef, refVars, regVars, isReady, propVars, dirty, imgs,
                 gpuVars, consoleErrors, texImage, frameVars, initResult, imgFailed,
                 paramVars>>

LoopCleanup ==
  /\ Step("cleanup", "loop")
  /\ rafPending' = CancelPending
  /\ cleanups' = cleanups \ {"loop"}
  /\ UNCHANGED <<phase, canvasRef, refVars, rafRef, regVars, isReady, propVars, dirty,
                 imgs, gpuVars, consoleErrors, texImage, frameVars, initResult,
                 imgFailed,
                 paramVars>>

\* faulty variant: the frame reuses the array of the frame before
CollectStale == frameRects

\* const rects = Array.from(rectsRef.current.values())
CollectRects == MapValues(rectsRef)

\* faulty variant: the count is not capped
RectCountUncapped(rects) == Len(rects)

\* const rectCount = Math.min(rects.length, 32)
RectCount(rects) == Min(Len(rects), RectCountCap)

\* gl.getUniformLocation(program, `u_rects[${i}]`) is an element of the array
UniformLocation(i) == i >= 0 /\ i < MAX_RECTS

\* the slots the upload loop writes
UploadIndices == { i \in 0..(UploadSlots - 1) : UniformLocation(i) }

\* intensityMap[rect.intensity] || 1.0, in halves
IntensityMap(t) ==
  CASE t = "light" -> 1
    [] t = "normal" -> 2
    [] t = "heavy" -> 3
    [] OTHER -> 2

ZeroVec == <<0, 0, 0, 0>>
ZeroParams == [roundness |-> 0, intensity |-> 0, enabled |-> 0]

\* faulty variant: a slot no rect is left for is not written
RectUniformKeep(rects, i, dpr) ==
  IF i < Len(rects)
    THEN <<rects[i + 1].x * dpr, rects[i + 1].y * dpr,
           rects[i + 1].width * dpr, rects[i + 1].height * dpr>>
    ELSE u_rects[i]

\* gl.uniform4f(rectsLoc, rect.x * dpr, ...) or gl.uniform4f(rectsLoc, 0, 0, 0, 0)
RectUniform(rects, i, dpr) ==
  IF i < Len(rects)
    THEN <<rects[i + 1].x * dpr, rects[i + 1].y * dpr,
           rects[i + 1].width * dpr, rects[i + 1].height * dpr>>
    ELSE ZeroVec

\* gl.uniform4f(paramsLoc, rect.roundness, intensity, 1.0, 0.0) or zeros
ParamsUniform(rects, i) ==
  IF i < Len(rects)
    THEN [roundness |-> rects[i + 1].roundness,
          intensity |-> IntensityMap(rects[i + 1].intensity), enabled |-> 1]
    ELSE ZeroParams

\* the uniform array after the upload loop wrote `new` into the slots it has
Upload(old, new) ==
  [i \in (DOMAIN old) \cup (DOMAIN new) |-> IF i \in DOMAIN new THEN new[i] ELSE old[i]]

\* faulty variant: blur is read from what the parent holds now
FrameParamsLive(cb) == [cb.params EXCEPT !.blur = glassParams.blur]

\* setUniform('u_refFactor', '1f', refraction) ... setUniform('u_thickness', ...):
\* the values `render` closed over
FrameParams(cb) == cb.params

\* the frame callback `render`; against a lost context the gl calls have no
\* effect: they return at once, or throw out of the callback
RafFire(cb, throws) ==
  /\ effectQueue = <<>>
  /\ cb \in rafPending
  /\ throws => contextLost
  /\ IF ~canvasRef
       THEN /\ rafPending' = rafPending \ {cb}
            /\ UNCHANGED <<rafRef, frameVars>>
       ELSE IF throws
         THEN /\ rafPending' = rafPending \ {cb}
              /\ UNCHANGED <<rafRef, frameVars>>
         ELSE /\ drawCalls < MaxFrames
              /\ LET rects == CollectRects
                 IN  IF contextLost
                          THEN UNCHANGED frameVars
                          ELSE /\ frameRects' = rects
                               /\ u_rectCount' = RectCount(rects)
                               /\ u_rects' = Upload(u_rects,
                                               [i \in UploadIndices |->
                                                  RectUniform(rects, i, cb.dpr)])
                               /\ u_rectParams' = Upload(u_rectParams,
                                               [i \in UploadIndices |->
                                                  ParamsUniform(rects, i)])
                               /\ u_params' = FrameParams(cb)
                               /\ drawCalls' = drawCalls + 1
                               /\ frameTex' = IF bgTextureRef THEN texImage ELSE 0
              /\ rafRef' = NewRafId
              /\ rafPending' = (rafPending \ {cb}) \cup
                   {[id |-> NewRafId, dims |-> cb.dims, dpr |-> cb.dpr,
                     params |-> cb.params, ver |-> cb.ver]}
  /\ UNCHANGED <<phase, canvasRef, refVars, regVars, isReady, propVars, dirty,
                 effectQueue, cleanups, imgs, gpuVars, consoleErrors, texImage,
                 initResult, imgFailed,
                 paramVars>>

-----------------------------------------------------------------------------
(* The fragment shader, at one pixel, over the uniforms of the last frame *)

\* the integer square root of n, known to lie in lo..hi
RECURSIVE ISqrt(_, _, _)
ISqrt(n, lo, hi) ==
  IF lo >= hi THEN lo
  ELSE LET mid == (lo + hi + 1) \div 2
       IN  IF mid * mid <= n THEN ISqrt(n, mid, hi) ELSE ISqrt(n, lo, mid - 1)

\* length(vec2(a, b)) on the half-pixel grid, a and b not negative: exact
\* when a or b is 0, rounded down otherwise
Length(a, b) ==
  IF a = 0 THEN b
  ELSE IF b = 0 THEN a
  ELSE ISqrt(a * a + b * b, Max(a, b), a + b)

\* values of wobbleOffset (half pixels): the sines and the noise of
\* sdRoundedRect are not computed, their sum is any of these
WobbleChoices == {-1, 0, 1}

\* sdRoundedRect(p, size, radius, wobble, rectIdx), wobbleOffset given
\* faulty variant: the radius is taken off the distance to the sharp box
sdRoundedRectSharp(px, py, sx, sy, radius, wobbleOffset) ==
  LET qx == Abs(px) - sx + wobbleOffset
      qy == Abs(py) - sy + wobbleOffset
  IN  Min(Max(qx, qy), 0) + Length(Max(qx, 0), Max(qy, 0)) - radius

sdRoundedRect(px, py, sx, sy, radius, wobbleOffset) ==
  LET qx == Abs(px) - sx + radius + wobbleOffset
      qy == Abs(py) - sy + radius + wobbleOffset
  IN  Min(Max(qx, qy), 0) + Length(Max(qx, 0), Max(qy, 0)) - radius

\* faulty variant: the depth is measured from the centre line outwards
NormalizedDepthInverted(sd, sx, sy) ==
  Min(sx, sy) - Min(2 * Max(-sd, 0), Min(sx, sy))

\* renderGlass: normalizedDepth = clamp(max(-sd, 0.0) / maxDepth, 0.0, 1.0),
\* maxDepth = min(size.x, size.y) * 0.5, as a numerator over Min(sx, sy);
\* sd and the half-extents sx, sy in half pixels
NormalizedDepth(sd, sx, sy) ==
  Min(2 * Max(-sd, 0), Min(sx, sy))

\* renderGlass: sd of the pixel whose centre is (pixel + 0.5) for slot i;
\* rect centre, half size and radius doubled into half pixels
GlassSd(pixel, i, wobbleOffset) ==
  LET rect == u_rects[i]
      sx == rect[3]
      sy == rect[4]
      radius == (Min(sx, sy) * u_rectParams[i].roundness) \div 2
  IN  sdRoundedRect((2 * pixel[1] + 1) - (2 * rect[1] + rect[3]),
                    (2 * pixel[2] + 1) - (2 * rect[2] + rect[4]),
                    sx, sy, radius, wobbleOffset)

\* #define PI 3.14159265359, in thousandths
PiMilli == (314159 + 50) \div 100

\* sin(x) in thousandths, x in milliradians: Bhaskara's rational approximation
\* 16 x (pi - x) / (5 pi^2 - 4 x (pi - x)) on [0, pi], within 2 thousandths
SinMilli(x) ==
  LET y == x % (2 * PiMilli)
      z == IF y <= PiMilli THEN y ELSE y - PiMilli
      b == (1000 * 16 * ((z * (PiMilli - z)) \div 100))
             \div ((5 * PiMilli * PiMilli - 4 * z * (PiMilli - z)) \div 100)
  IN  IF y <= PiMilli THEN b ELSE -b

\* atan(p.y, p.x) in milliradians, for p on an axis or a diagonal (the pixels
\* sampled lie on the diagonal through the centres of the rectangles)
AtanMilli(py, px) ==
  CASE py = 0 /\ px > 0 -> 0
    [] py = px /\ px > 0 -> PiMilli \div 4
    [] px = 0 /\ py > 0 -> PiMilli \div 2
    [] py = -px /\ py > 0 -> (3 * PiMilli) \div 4
    [] py = 0 /\ px < 0 -> PiMilli
    [] py = px /\ px < 0 -> -((3 * PiMilli) \div 4)
    [] px = 0 /\ py < 0 -> -(PiMilli \div 2)
    [] py = -px /\ py < 0 -> -(PiMilli \div 4)

\* u_time values sampled, in seconds
TimeChoices == {0, 2}
\* values of fbm(...) sampled, in thousandths: fbm ranges over [0, 0.875)
FbmChoices == {0, 437, 874}
\* hundredths of a half pixel in a half pixel
Fine == 10 * 10

\* faulty variant: the first harmonic has a fixed amplitude
WobbleOffsetUnscaled(angle, time, rectIdx, liquidWobble, noise) ==
  (18 * (40 * 10 * SinMilli(4 * angle + 1500 * time + 1000 * rectIdx)
         + liquidWobble * (4 * SinMilli(6 * angle - 2000 * time) + 5 * noise)))
    \div 100000

\* wobbleOffset of sdRoundedRect in hundredths of a half pixel: wobbleAmount is
\* u_liquidWobble * 0.3 * 3.0, u_liquidWobble in hundredths, angle in
\* milliradians, `noise` the value of fbm(vec2(angle * 1.5, u_time * 0.3 +
\* rectIdx * 0.5)) in thousandths
WobbleOffset(angle, time, rectIdx, liquidWobble, noise) ==
  (18 * liquidWobble * (10 * SinMilli(4 * angle + 1500 * time + 1000 * rectIdx)
                        + 4 * SinMilli(6 * angle - 2000 * time)
                        + 5 * noise))
    \div 100000

\* renderGlass for slot i at the pixel, at u_time = time: the shape distance
\* (hundredths of a half pixel) and wobbleRef (sin in thousandths times
\* 3 * u_liquidWobble), the two values rectIdx enters; depth, normal, edge
\* alpha and colour are computed from them, the pixel and the uniforms
RegionOptics(pixel, i, time, noise) ==
  LET rect == u_rects[i]
      sx == rect[3]
      sy == rect[4]
      radius == (Min(sx, sy) * u_rectParams[i].roundness) \div 2
      px == (2 * pixel[1] + 1) - (2 * rect[1] + rect[3])
      py == (2 * pixel[2] + 1) - (2 * rect[2] + rect[4])
      wobbleOffset == WobbleOffset(AtanMilli(py, px), time, i,
                                   u_params.liquidWobble, noise)
  IN  [sd |-> sdRoundedRect(px * Fine, py * Fine, sx * Fine, sy * Fine,
                            radius * Fine, wobbleOffset),
       wobbleRef |-> SinMilli(1500 * time + 15 * Length(Abs(px), Abs(py)) + 1000 * i)
                       * 3 * u_params.liquidWobble]

\* alpha 1.0 in 125ths
AlphaOne == 5 * 5 * 5

\* smoothstep(1.5, -1.0, sd) in 125ths: t = clamp((1.5 - sd) / 2.5, 0, 1) is
\* k/5 on the half-pixel grid, and t * t * (3 - 2 t) = k * k * (15 - 2 k) / 125
\* faulty variant: the band reaches a pixel further out
EdgeAlphaWide(sd) ==
  LET k == Max(0, Min(5, 5 - sd))
  IN  k * k * (15 - 2 * k)

EdgeAlpha(sd) ==
  LET k == Max(0, Min(5, 3 - sd))
  IN  k * k * (15 - 2 * k)

\* renderGlass(...).a: vec4(0.0) when sd > 2.0, else aa
GlassAlpha(pixel, i, wobbleOffset) ==
  LET sd == GlassSd(pixel, i, wobbleOffset)
  IN  IF sd > 4 THEN 0 ELSE EdgeAlpha(sd)

\* if (u_rectParams[i].z < 0.5) continue;
SlotEnabled(i) == u_rectParams[i].enabled >= 1

\* the slots the loop of main() renders
DrawnSlots == { i \in 0..(MAX_RECTS - 1) : i < u_rectCount /\ SlotEnabled(i) }

\* faulty variant: the alpha is added whole, up to what is left of 1.0
BlendSaturating(glassAlpha, total, den) ==
  Min(glassAlpha * den, AlphaOne * (den - total))

\* faulty variant: the weight ignores what is accumulated
BlendUnweighted(glassAlpha, total, den) == glassAlpha * den

\* float alpha = glassColor.a * (1.0 - totalAlpha), as a numerator over
\* den * AlphaOne, glassAlpha being in 125ths and totalAlpha being total / den
BlendAlpha(glassAlpha, total, den) == glassAlpha * (den - total)

\* main(): the blend weight of every slot rendered and the final alpha, as
\* numerators over acc.den. A slot of alpha 0 or 1 leaves the denominator as it is.
RECURSIVE MainLoop(_, _, _, _)
MainLoop(i, acc, pixel, wobbles) ==
  IF i >= MAX_RECTS \/ i >= u_rectCount
    THEN acc
    ELSE IF ~SlotEnabled(i)
      THEN MainLoop(i + 1, acc, pixel, wobbles)
      ELSE LET a == GlassAlpha(pixel, i, wobbles[i])
               w == BlendAlpha(a, acc.total, acc.den)
           IN  IF w % AlphaOne = 0
                 THEN MainLoop(i + 1,
                        [total |-> acc.total + w \div AlphaOne, den |-> acc.den,
                         weight |-> [acc.weight EXCEPT ![i] = w \div AlphaOne]],
                        pixel, wobbles)
                 ELSE MainLoop(i + 1,
                        [total |-> acc.total * AlphaOne + w, den |-> acc.den * AlphaOne,
                         weight |-> [j \in DOMAIN acc.weight |->
                                       IF j = i THEN w ELSE acc.weight[j] * AlphaOne]],
                        pixel, wobbles)

FragMain(pixel, wobbles) ==
  MainLoop(0, [total |-> 0, den |-> 1, weight |-> [i \in DrawnSlots |-> 0]],
           pixel, wobbles)

-----------------------------------------------------------------------------
(* LiquidGlass: one canvas, its own context, program and backdrop texture.
   The component has the refs and the state of the same names; its init
   effect also loads the backdrop, and re-runs when backgroundImage changes *)

LgMount ==
  /\ phase = "init"
  /\ phase' = "mounted"
  /\ canvasRef' = TRUE
  /\ dirty' = {"init", "loop"}
  /\ UNCHANGED <<refVars, rafRef, regVars, isReady, propVars, effectQueue, cleanups,
                 imgs, rafPending, gpuVars, consoleErrors, texImage, frameVars,
                 initResult, imgFailed, paramVars>>

\* the parent renders LiquidGlass with another backgroundImage: a dependency
\* of the init effect
LgBackgroundChange(src) ==
  /\ phase = "mounted"
  /\ effectQueue = <<>>
  /\ src /= backgroundImage
  /\ Len(imgs) < MaxInFlight
  /\ released["program"] + (IF "init" \in dirty THEN 1 ELSE 0) < MaxReinits
  /\ backgroundImage' = src
  /\ dirty' = dirty \cup {"init"}
  /\ UNCHANGED <<phase, canvasRef, refVars, rafRef, regVars, isReady, dimensions,
                 devicePixelRatio, visible, docVars, effectQueue, cleanups, imgs,
                 rafPending, gpuVars,
                 consoleErrors, texImage, frameVars, initResult, imgFailed,
                 paramVars>>

\* the init effect, every stage compiling and the program linking: a new
\* program, a new empty texture bound, and loadBackground() called
LgInitEffect ==
  /\ Step("effect", "init")
  /\ IF ~canvasRef
       THEN /\ initResult' = "noCanvas"
            /\ UNCHANGED <<refVars, created, cleanups, imgs, texImage>>
       ELSE /\ initResult' = "ok"
            /\ glRef' = TRUE
            /\ programRef' = TRUE
            /\ bgTextureRef' = TRUE
            /\ created' = created \cup InitCreated("ok")
            /\ texImage' = 0
            /\ imgs' = Append(imgs, [src |-> backgroundImage, isMounted |-> TRUE])
            /\ cleanups' = cleanups \cup {"init"}
  /\ UNCHANGED <<phase, canvasRef, rafRef, regVars, isReady, propVars, dirty,
                 rafPending, released, contextLost, consoleErrors, frameVars,
                 imgFailed, paramVars>>

\* its cleanup: isMounted = false, the pending frame cancelled, the refs
\* cleared, the program, the shaders and the texture deleted
LgInitCleanup ==
  /\ Step("cleanup", "init")
  /\ imgs' = [i \in 1..Len(imgs) |-> [imgs[i] EXCEPT !.isMounted = FALSE]]
  /\ rafPending' = CancelPending
  /\ bgTextureRef' = FALSE
  /\ glRef' = FALSE
  /\ programRef' = FALSE
  /\ texImage' = 0
  /\ released' = Release(released, CleanupDeletes)
  /\ cleanups' = cleanups \ {"init"}
  /\ UNCHANGED <<phase, canvasRef, rafRef, regVars, isReady, propVars, dirty,
                 created, contextLost, consoleErrors, frameVars, initResult,
                 imgFailed, paramVars>>

\* the program object programRef.current holds: the programs deleted so far
\* number those before it
CurrentProgram == released["program"]

\* if (!isReady) return; ... if (!gl || !program) return;
LgLoopStarts == isReady /\ glRef /\ programRef

\* the render loop effect: `render` closes over gl, program and the props
LgLoopEffect ==
  /\ Step("effect", "loop")
  /\ IF LgLoopStarts
       THEN /\ rafRef' = NewRafId
            /\ rafPending' = rafPending \cup
                 {[id |-> NewRafId, program |-> CurrentProgram,
                   params |-> ClosureParams]}
            /\ cleanups' = cleanups \cup {"loop"}
       ELSE UNCHANGED <<rafRef, rafPending, cleanups>>
  /\ UNCHANGED <<phase, canvasRef, refVars, regVars, isReady, propVars, dirty, imgs,
                 gpuVars, consoleErrors, texImage, frameVars, initResult, imgFailed,
                 paramVars>>

\* the frame callback `render`: uniforms, gl.bindTexture(gl.TEXTURE_2D,
\* bgTextureRef.current), gl.drawArrays, requestAnimationFrame(render)
LgRafFire(cb) ==
  /\ effectQueue = <<>>
  /\ cb \in rafPending
  /\ drawCalls < MaxFrames
  /\ drawCalls' = drawCalls + 1
  /\ frameTex' = IF bgTextureRef THEN texImage ELSE 0
  /\ u_params' = cb.params
  /\ rafRef' = NewRafId
  /\ rafPending' = (rafPending \ {cb}) \cup {[cb EXCEPT !.id = NewRafId]}
  /\ UNCHANGED <<phase, canvasRef, refVars, regVars, isReady, propVars, dirty,
                 effectQueue, cleanups, imgs, gpuVars, consoleErrors, texImage,
                 uniformVars, frameRects, initResult, imgFailed, paramVars>>

-----------------------------------------------------------------------------
(* LiquidGlassCursor (src/src/plugin.ts)

   The component has refs of the same names, the state visible, and renders
   its canvas only while visible is true; params come from the glass context *)

\* the first render returns null (visible is false): no canvas is mounted
CursorMount ==
  /\ phase = "init"
  /\ phase' = "mounted"
  /\ canvasRef' = visible
  /\ dirty' = {"init", "loop"}
  /\ UNCHANGED <<refVars, rafRef, regVars, isReady, propVars, effectQueue, cleanups,
                 imgs, rafPending, gpuVars, consoleErrors, texImage, frameVars,
                 initResult, imgFailed, paramVars>>

\* the objects the cursor's init effect creates
CursorCreated == {"vertexShader", "fragmentShader", "program", "positionBuffer"}

\* the init effect: context, shaders, program, buffer. Its dependency is the
\* shader source, a constant string, so it runs after the first commit only
CursorInitEffect ==
  /\ Step("effect", "init")
  /\ IF ~canvasRef
       THEN /\ initResult' = "noCanvas"
            /\ UNCHANGED <<refVars, created, cleanups>>
       ELSE /\ initResult' = "ok"
            /\ glRef' = TRUE
            /\ programRef' = TRUE
            /\ created' = created \cup CursorCreated
            /\ cleanups' = cleanups \cup {"init"}
            /\ UNCHANGED bgTextureRef
  /\ UNCHANGED <<phase, canvasRef, rafRef, regVars, isReady, propVars, dirty, imgs,
                 rafPending, released, contextLost, consoleErrors, texImage,
                 frameVars, imgFailed, paramVars>>

\* the render effect: if (!gl || !program) return; else the loop starts
CursorLoopEffect ==
  /\ Step("effect", "loop")
  /\ IF glRef /\ programRef
       THEN /\ rafRef' = NewRafId
            /\ rafPending' = rafPending \cup
                 {[id |-> NewRafId, program |-> CurrentProgram,
                   params |-> ClosureParams]}
            /\ cleanups' = cleanups \cup {"loop"}
       ELSE UNCHANGED <<rafRef, rafPending, cleanups>>
  /\ UNCHANGED <<phase, canvasRef, refVars, regVars, isReady, propVars, dirty, imgs,
                 gpuVars, consoleErrors, texImage, frameVars, initResult, imgFailed,
                 paramVars>>

\* setVisible(v) from a document listener; the listeners are attached by the
\* last effect of the first flush, after the init effect has run, and removed
\* at unmount
SetVisible(v) ==
  /\ phase = "mounted"
  /\ effectQueue = <<>>
  /\ initResult /= "none"
  /\ visible' = v
  /\ UNCHANGED <<phase, canvasRef, refVars, rafRef, regVars, isReady, dimensions,
                 backgroundImage, devicePixelRatio, docVars, dirty, effectQueue,
                 cleanups, imgs, rafPending, gpuVars, consoleErrors, texImage,
                 frameVars, initResult, imgFailed, paramVars>>

\* mousemove: the target position is stored and setVisible(true)
handleMouseMove == SetVisible(TRUE)
\* mouseleave: setVisible(false)
handleLeave == SetVisible(FALSE)
\* mouseenter: setVisible(true)
handleEnter == SetVisible(TRUE)

\* React renders the cursor after visible changed and commits: the canvas is
\* mounted or removed, canvasRef.current follows. No dependency of an effect
\* changed, so no effect is queued
CursorCommit ==
  /\ phase = "mounted"
  /\ effectQueue = <<>>
  /\ canvasRef /= visible
  /\ canvasRef' = visible
  /\ UNCHANGED <<refVars, phase, rafRef, regVars, isReady, propVars, dirty,
                 effectQueue, cleanups, imgs, rafPending, gpuVars, consoleErrors,
                 texImage, frameVars, initResult, imgFailed, paramVars>>

\* the provider renders with the queued updaters applied: the context hands
\* the cursor another params object, the dependency of its render effect
CursorRenderParams ==
  /\ effectQueue = <<>>
  /\ paramUpdates /= <<>>
  /\ glassParams' = ApplyUpdates(glassParams, paramUpdates)
  /\ paramUpdates' = <<>>
  /\ versions' = Append(versions, glassParams')
  /\ dirty' = IF phase = "mounted" THEN dirty \cup {"loop"} ELSE dirty
  /\ UNCHANGED <<phase, canvasRef, refVars, rafRef, regVars, isReady, propVars,
                 effectQueue, cleanups, imgs, rafPending, gpuVars, consoleErrors,
                 texImage, frameVars, initResult, imgFailed>>

-----------------------------------------------------------------------------
(* SVG filter injection (src/README.md: createFiltersSVG, injectFilters,
   removeFilters)

   document.body is the sequence of its child nodes; a filter definition is
   named by the id it is generated with *)

\* the page's own content
AppNode == [class |-> "app", serial |-> 0, defs |-> <<>>]

\* the filters createFiltersSVG always lists, in the order of the literal
BuiltinFilters ==
  << [key |-> "glacier-liquid-glass", val |-> "glacier-liquid-glass"],
     [key |-> "glacier-liquid-glass-light", val |-> "glacier-liquid-glass-light"],
     [key |-> "glacier-liquid-glass-dark", val |-> "glacier-liquid-glass-dark"],
     [key |-> "glacier-frosted", val |-> "glacier-frosted"],
     [key |-> "glacier-frosted-light", val |-> "glacier-frosted-light"],
     [key |-> "glacier-frosted-dark", val |-> "glacier-frosted-dark"],
     [key |-> "glacier-refraction", val |-> "glacier-refraction"],
     [key |-> "glacier-refraction-subtle", val |-> "glacier-refraction-subtle"],
     [key |-> "glacier-refraction-strong", val |-> "glacier-refraction-strong"],
     [key |-> "glacier-dispersion", val |-> "glacier-dispersion"],
     [key |-> "glacier-glow", val |-> "glacier-glow"],
     [key |-> "glacier-glow-primary", val |-> "glacier-glow-primary"] >>

\* the customFilters arguments tried: none, a filter under a new name, a
\* filter under the name of a built-in one
CustomFilterChoices ==
  { <<>>,
    <<[key |-> "my-filter", val |-> "my-filter"]>>,
    <<[key |-> "glacier-glow", val |-> "my-glow"]>> }

\* { ...filters, ...customFilters } of an object literal
RECURSIVE SpreadEntries(_, _)
SpreadEntries(m, c) ==
  IF c = <<>> THEN m
  ELSE SpreadEntries(MapSet(m, Head(c).key, Head(c).val), Tail(c))

\* createFiltersSVG: the <defs> of the generated <svg class="glacier-filters">,
\* Object.values(filters) in order
createFiltersSVG(customFilters) == MapValues(SpreadEntries(BuiltinFilters, customFilters))

\* the positions of the .glacier-filters elements in the document
FilterElements(b) == {i \in 1..Len(b) : b[i].class = "glacier-filters"}

\* faulty variant: the check for an element already injected is missing
AlreadyInjectedNever(b) == FALSE

\* document.querySelector('.glacier-filters') finds an element
AlreadyInjected(b) == FilterElements(b) /= {}

\* the elements injectFilters has created so far
FiltersCreated == Len(SelectSeq(filterCalls, LAMBDA c : c.op = "inject" /\ ~c.had))

\* injectFilters(customFilters)
injectFilters(customFilters) ==
  /\ Len(filterCalls) < MaxFilterCalls
  /\ filterCalls' = Append(filterCalls, [op |-> "inject", custom |-> customFilters,
                                         had |-> AlreadyInjected(body)])
  /\ IF AlreadyInjected(body)
       THEN body' = body
       ELSE body' = <<[class |-> "glacier-filters", serial |-> FiltersCreated + 1,
                       defs |-> createFiltersSVG(customFilters)]>> \o body
  /\ UNCHANGED <<phase, canvasRef, refVars, rafRef, regVars, isReady, dimensions,
                 backgroundImage, devicePixelRatio, visible, dirty, effectQueue,
                 cleanups, imgs, rafPending, gpuVars, consoleErrors, texImage,
                 frameVars, initResult, imgFailed, paramVars>>

\* removeFilters(): the first match of querySelector, if any, is removed
removeFilters ==
  /\ Len(filterCalls) < MaxFilterCalls
  /\ filterCalls' = Append(filterCalls, [op |-> "remove", custom |-> <<>>,
                                         had |-> AlreadyInjected(body)])
  /\ IF FilterElements(body) /= {}
       THEN LET first == CHOOSE i \in FilterElements(body) :
                           \A j \in FilterElements(body) : i <= j
            IN  body' = SubSeq(body, 1, first - 1) \o SubSeq(body, first + 1, Len(body))
       ELSE body' = body
  /\ UNCHANGED <<phase, canvasRef, refVars, rafRef, regVars, isReady, dimensions,
                 backgroundImage, devicePixelRatio, visible, dirty, effectQueue,
                 cleanups, imgs, rafPending, gpuVars, consoleErrors, texImage,
                 frameVars, initResult, imgFailed, paramVars>>

-----------------------------------------------------------------------------
(* Specifications *)

Init ==
  /\ phase = "init"
  /\ canvasRef = FALSE
  /\ glRef = FALSE
  /\ programRef = FALSE
  /\ bgTextureRef = FALSE
  /\ rafRef = 0
  /\ rectsRef = <<>>
  /\ isReady = FALSE
  /\ dimensions = 800
  /\ backgroundImage = 1
  /\ devicePixelRatio \in DprChoices
  /\ dirty = {}
  /\ effectQueue = <<>>
  /\ cleanups = {}
  /\ imgs = <<>>
  /\ rafPending = {}
  /\ created = {}
  /\ released = [o \in GpuObjects |-> 0]
  /\ contextLost = FALSE
  /\ consoleErrors = {}
  /\ texImage = 0
  /\ u_rectCount = 0
  /\ u_rects = [i \in 0..(MAX_RECTS - 1) |-> ZeroVec]
  /\ u_rectParams = [i \in 0..(MAX_RECTS - 1) |-> ZeroParams]
  /\ drawCalls = 0
  /\ frameTex = 0
  /\ frameRects = <<>>
  /\ initResult = "none"
  /\ imgFailed = FALSE
  /\ lastOp = NoOp
  /\ glassParams = DefaultParams
  /\ paramUpdates = <<>>
  /\ versions = <<DefaultParams>>
  /\ u_params = UnsetParams
  /\ visible = FALSE
  /\ body = <<AppNode>>
  /\ filterCalls = <<>>

\* the effects of a flush, the init effect ending as `outcomes` allow
Flush(outcomes) ==
  \/ BeginFlush
  \/ \E o \in outcomes : InitEffect(o)
  \/ InitCleanup
  \/ LoadEffect
  \/ LoadCleanup
  \/ LoopEffect
  \/ LoopCleanup

\* the registry and the frame loop of a renderer that initialized
Next ==
  \/ Mount
  \/ BeginFlush
  \/ InitEffect("ok")
  \/ LoadEffect
  \/ LoopEffect
  \/ \E i \in 1..Len(imgs) : ImgOnload(i, FALSE)
  \/ \E cb \in rafPending : RafFire(cb, FALSE)
  \/ \E rect \in RectChoices(Ids) : RegisterGlass(rect)
  \/ \E id \in Ids : UnregisterGlass(id)
  \/ \E id \in Ids, u \in Partials : UpdateGlass(id, u)

Spec == Init /\ [][Next]_vars

\* the life of the component: initialization outcomes, image events, property
\* and window changes, context loss, unmount
NextLifecycle ==
  \/ Mount
  \/ Unmount
  \/ Flush(InitOutcomes)
  \/ \E d \in DimChoices : Resize(d)
  \/ \E src \in Images : BackgroundChange(src)
  \/ LoseContext
  \/ \E i \in 1..Len(imgs), throws \in BOOLEAN : ImgOnload(i, throws)
  \/ \E i \in 1..Len(imgs) : ImgError(i)
  \/ \E cb \in rafPending, throws \in BOOLEAN : RafFire(cb, throws)

SpecLifecycle == Init /\ [][NextLifecycle]_vars

\* the same, the browser and React going on as long as a callback or an effect
\* is left to run
SpecLifecycleFair == SpecLifecycle /\ WF_vars(NextLifecycle)

\* more panels than the shader has slots: panel k registers itself at x = k
PanelRect(id) == GlassRect(id, id, 0, 8, 8, 0, "normal")
NextPanelId == IF rectsRef = <<>> THEN 1 ELSE rectsRef[Len(rectsRef)].key + 1
CapUnregisterIds == {1, 2}

NextCap ==
  \/ Mount
  \/ BeginFlush
  \/ InitEffect("ok")
  \/ LoadEffect
  \/ LoopEffect
  \/ \E i \in 1..Len(imgs) : ImgOnload(i, FALSE)
  \/ \E cb \in rafPending : RafFire(cb, FALSE)
  \/ NextPanelId <= MaxPanels /\ RegisterGlass(PanelRect(NextPanelId))
  \/ \E id \in CapUnregisterIds : UnregisterGlass(id)

SpecCap == Init /\ [][NextCap]_vars

\* the registry as its exported functions can be called (useGlassRegistry):
\* updateGlass takes any Partial<GlassRect>, an id among its fields, and a
\* caller that is not type-checked can pass a field GlassRect does not have
ApiRects == { GlassRect(id, 0, 0, 8, 8, 0, "normal") : id \in Ids }
ApiPartials == { [id |-> id] : id \in Ids } \cup { [enabled |-> FALSE] }

NextApi ==
  \/ Mount
  \/ BeginFlush
  \/ InitEffect("ok")
  \/ LoadEffect
  \/ LoopEffect
  \/ \E i \in 1..Len(imgs) : ImgOnload(i, FALSE)
  \/ \E cb \in rafPending : RafFire(cb, FALSE)
  \/ \E rect \in ApiRects : RegisterGlass(rect)
  \/ \E id \in Ids : UnregisterGlass(id)
  \/ \E id \in Ids, u \in ApiPartials : UpdateGlass(id, u)

SpecApi == Init /\ [][NextApi]_vars

\* one panel taking each shape in turn: sizes and roundness values its props
\* can give it
ShapeRects ==
  { GlassRect(1, 1, 1, g[1], g[2], r, "normal") :
      g \in {<<4, 2>>, <<3, 5>>, <<5, 5>>}, r \in {0, 1, 2} }

NextShapes ==
  \/ Mount
  \/ BeginFlush
  \/ InitEffect("ok")
  \/ LoadEffect
  \/ LoopEffect
  \/ \E i \in 1..Len(imgs) : ImgOnload(i, FALSE)
  \/ \E cb \in rafPending : RafFire(cb, FALSE)
  \/ \E rect \in ShapeRects : RegisterGlass(rect)
  \/ UnregisterGlass(1)

SpecShapes == Init /\ [][NextShapes]_vars

\* the frame loop across its restarts: optical props and window dimensions
\* changing while frames are drawn, and the unmount
NextLoop ==
  \/ Mount
  \/ Unmount
  \/ BeginFlush
  \/ InitEffect("ok")
  \/ InitCleanup
  \/ LoadEffect
  \/ LoadCleanup
  \/ LoopEffect
  \/ LoopCleanup
  \/ \E d \in DimChoices : Resize(d)
  \/ \E newParams \in ParamPartials : SetParams(newParams)
  \/ RenderParams
  \/ \E i \in 1..Len(imgs) : ImgOnload(i, FALSE)
  \/ \E cb \in rafPending : RafFire(cb, FALSE)

SpecLoop == Init /\ [][NextLoop]_vars

\* LiquidGlass: its backdrop and its optical props changing while it runs
NextLiquidGlass ==
  \/ LgMount
  \/ Unmount
  \/ BeginFlush
  \/ LgInitEffect
  \/ LgInitCleanup
  \/ LgLoopEffect
  \/ LoopCleanup
  \/ \E src \in Images : LgBackgroundChange(src)
  \/ \E newParams \in ParamPartials : SetParams(newParams)
  \/ RenderParams
  \/ \E i \in 1..Len(imgs) : ImgOnload(i, FALSE)
  \/ \E cb \in rafPending : LgRafFire(cb)

SpecLiquidGlass == Init /\ [][NextLiquidGlass]_vars

\* the same, React flushing the effects it queued, the browser completing the
\* loads started and running the frame callbacks requested
LgFairness ==
  /\ WF_vars(BeginFlush)
  /\ WF_vars(LgInitEffect \/ LgInitCleanup \/ LgLoopEffect \/ LoopCleanup)
  /\ WF_vars(\E i \in 1..Len(imgs) : ImgOnload(i, FALSE))
  /\ WF_vars(\E cb \in rafPending : LgRafFire(cb))

SpecLiquidGlassFair == SpecLiquidGlass /\ LgFairness

\* panels of one geometry coming and going while the wobble slider is moved
WobblePartials == { [liquidWobble |-> 0] }

NextOptics ==
  \/ Mount
  \/ BeginFlush
  \/ InitEffect("ok")
  \/ LoadEffect
  \/ LoopEffect
  \/ LoopCleanup
  \/ \E i \in 1..Len(imgs) : ImgOnload(i, FALSE)
  \/ \E cb \in rafPending : RafFire(cb, FALSE)
  \/ \E rect \in ApiRects : RegisterGlass(rect)
  \/ \E id \in Ids : UnregisterGlass(id)
  \/ \E newParams \in WobblePartials : SetParams(newParams)
  \/ RenderParams

SpecOptics == Init /\ [][NextOptics]_vars

\* setParams calls and renders of the parent against the frame loop
NextParams ==
  \/ Mount
  \/ BeginFlush
  \/ InitEffect("ok")
  \/ LoadEffect
  \/ LoopEffect
  \/ LoopCleanup
  \/ \E i \in 1..Len(imgs) : ImgOnload(i, FALSE)
  \/ \E cb \in rafPending : RafFire(cb, FALSE)
  \/ \E newParams \in ParamPartials : SetParams(newParams)
  \/ RenderParams

SpecParams == Init /\ [][NextParams]_vars

-----------------------------------------------------------------------------
(* Properties *)

KeyCount(m, k) == Cardinality({ i \in 1..Len(m) : m[i].key = k })

\* C1: registerGlass on an id that is present replaces the entry in place:
\* after the call the registry holds exactly one entry for the id, it is the
\* rect passed, the entry kept its position and the others are untouched; and
\* registering a rect whose entry is already that rect (as a first call left
\* it) leaves the registry as it is.
RegisterIdempotent ==
  [][\A rect \in RectChoices(Ids) :
       RegisterGlass(rect) =>
         /\ KeyCount(rectsRef', rect.id) = 1
         /\ MapGet(rectsRef', rect.id) = rect
         /\ MapHas(rectsRef, rect.id) =>
              /\ Len(rectsRef') = Len(rectsRef)
              /\ \A i \in 1..Len(rectsRef) :
                   IF rectsRef[i].key = rect.id
                     THEN rectsRef'[i] = [key |-> rect.id, val |-> rect]
                     ELSE rectsRef'[i] = rectsRef[i]
         /\ (MapHas(rectsRef, rect.id) /\ MapGet(rectsRef, rect.id) = rect) =>
              rectsRef' = rectsRef
    ]_vars

\* an id that was present has been registered again, the registry being full
RegisterTwiceWitness ==
  /\ lastOp.op = "register"
  /\ lastOp.had
  /\ Len(rectsRef) = MaxIds

\* C2: updateGlass and unregisterGlass on an id that is not in the registry
\* leave the registry exactly as it was (no entry is created).
AbsentIdNoOp ==
  [][\A id \in Ids :
       ( /\ ~MapHas(rectsRef, id)
         /\ (UnregisterGlass(id) \/ \E u \in Partials : UpdateGlass(id, u)) )
       => rectsRef' = rectsRef
    ]_vars

\* an update came for an id that is not registered while another one is
AbsentUpdateWitness ==
  /\ lastOp.op = "update"
  /\ ~lastOp.had
  /\ rectsRef /= <<>>
  /\ Len(rectsRef) < MaxIds

\* what a frame over `rects` leaves in the uniforms
FrameShows(rects, dpr) ==
  /\ u_rectCount = Min(Len(rects), MAX_RECTS)
  /\ \A i \in 0..(MAX_RECTS - 1) :
       IF i < Len(rects)
         THEN /\ u_rects[i] = <<rects[i + 1].x * dpr, rects[i + 1].y * dpr,
                                rects[i + 1].width * dpr, rects[i + 1].height * dpr>>
              /\ u_rectParams[i].enabled = 1
         ELSE /\ u_rects[i] = ZeroVec
              /\ u_rectParams[i].enabled = 0

\* C3: a draw uploads the registry as it is when the frame starts, and the
\* registry calls made afterwards do not change what that draw uploaded; the
\* next draw uploads the registry as it is then.
SnapshotIsolation ==
  [][ /\ drawCalls' /= drawCalls =>
           /\ frameRects' = MapValues(rectsRef)
           /\ FrameShows(MapValues(rectsRef), devicePixelRatio)'
      /\ drawCalls' = drawCalls => UNCHANGED <<uniformVars, frameRects>>
    ]_vars

\* the registry changed after a frame was drawn, and the uniforms still show
\* that frame
MutatedAfterFrameWitness ==
  /\ drawCalls > 0
  /\ lastOp.op /= "none"
  /\ frameRects /= MapValues(rectsRef)
  /\ Len(frameRects) > 0
  /\ FrameShows(frameRects, devicePixelRatio)

\* C4: whatever the number n of registered regions, a frame writes only the
\* slots 0..31, sets the count to min(n, 32), and draws exactly the first
\* min(n, 32) entries of the registry in registration order.
CapEnforced ==
  /\ DOMAIN u_rects \subseteq 0..(MAX_RECTS - 1)
  /\ DOMAIN u_rectParams \subseteq 0..(MAX_RECTS - 1)
  /\ drawCalls > 0 =>
       /\ u_rectCount = Min(Len(frameRects), MAX_RECTS)
       /\ DrawnSlots = 0..(Min(Len(frameRects), MAX_RECTS) - 1)
       /\ \A i \in DrawnSlots :
            u_rects[i] = <<frameRects[i + 1].x * devicePixelRatio,
                           frameRects[i + 1].y * devicePixelRatio,
                           frameRects[i + 1].width * devicePixelRatio,
                           frameRects[i + 1].height * devicePixelRatio>>
       /\ \A i \in 1..(Len(frameRects) - 1) : frameRects[i].id < frameRects[i + 1].id

\* a frame was drawn over more regions than there are slots
OverCapWitness ==
  /\ drawCalls > 0
  /\ Len(frameRects) > MAX_RECTS
  /\ u_rectCount = MAX_RECTS

TornDown == initResult = "ok" /\ "init" \notin cleanups

\* C6: once the cleanup of the init effect has run, no frame callback is
\* pending (the one that was has been cancelled), and no later step runs a
\* frame callback or issues a draw call.
TeardownCancelsLoop ==
  [][ /\ TornDown' => rafPending' = {}
      /\ TornDown => (drawCalls' = drawCalls /\ UNCHANGED <<uniformVars, rafRef>>)
    ]_vars

\* torn down while the loop was running: frames were drawn, a frame had been
\* requested, none is pending
TornDownWitness ==
  /\ TornDown
  /\ drawCalls > 0
  /\ rafRef /= 0
  /\ rafPending = {}

\* C7: every GPU object created by the init effect (program, both shaders,
\* position buffer, background texture) has been released exactly once when
\* the cleanup has run on a live context, and against a lost context the
\* cleanup releases nothing.
ReleasedExactlyOnce ==
  TornDown =>
    IF contextLost
      THEN \A o \in created : released[o] <= 1
      ELSE \A o \in created : released[o] = 1

\* C8: when a stage failed to compile or the program failed to link, the
\* failure has been reported, the loop never starts and nothing is drawn.
InitFailed == initResult \in CompileFailures \cup {"linkFail"}

InitFailureRendersNothing ==
  InitFailed =>
    /\ InitErrors(initResult) /= {}
    /\ InitErrors(initResult) \subseteq consoleErrors
    /\ ~programRef
    /\ ~isReady
    /\ rafPending = {}
    /\ drawCalls = 0

\* the link failed, the mount flush is over and the background changed since
LinkFailedWitness ==
  /\ initResult = "linkFail"
  /\ phase = "mounted"
  /\ effectQueue = <<>> /\ dirty = {}
  /\ backgroundImage /= 1

\* C9: a backdrop load that failed has been reported, and nothing is drawn
\* from a texture no image was loaded into.
ImageErrorReported == \E e \in consoleErrors : e \notin UNION { InitErrors(o) : o \in InitOutcomes }

FailedLoadReported ==
  imgFailed => (ImageErrorReported /\ (texImage = 0 => drawCalls = 0))

\* device pixels sampled along the diagonal through the rectangles
SamplePixels == { <<n, n>> : n \in {4, 7, 8, 15} }

\* the overlaps of the last frame: a sampled pixel, two slots i < j rendered
\* and wobbles under which the pixel lies inside the shapes of both (sd <= 0).
\* A frame is looked at while the registry is the one it uploaded, which is
\* the case of every frame when it is drawn.
OverlapCases ==
  IF drawCalls > 0 /\ frameRects = MapValues(rectsRef)
    THEN { c \in [pixel : SamplePixels, i : DrawnSlots, j : DrawnSlots,
                  wobbles : [DrawnSlots -> WobbleChoices]] :
             /\ c.i < c.j
             /\ GlassSd(c.pixel, c.i, c.wobbles[c.i]) <= 0
             /\ GlassSd(c.pixel, c.j, c.wobbles[c.j]) <= 0 }
    ELSE {}

\* C10 as stated: where two enabled regions overlap, the blend weight of the
\* region registered later is at least that of the region registered earlier.
LaterRegionDominates ==
  \A c \in OverlapCases :
    LET out == FragMain(c.pixel, c.wobbles)
    IN  out.weight[c.j] >= out.weight[c.i]

\* C10, amended: where two enabled regions overlap (the pixel is inside both
\* shapes), the blend weight of the region registered earlier is at least
\* that of the region registered later, which gets what the earlier ones
\* left: at most 1 - accumulated alpha.
EarlierRegionDominates ==
  \A c \in OverlapCases :
    LET out == FragMain(c.pixel, c.wobbles)
    IN  /\ out.weight[c.i] >= out.weight[c.j]
        /\ out.weight[c.j] <= out.den - out.weight[c.i]
        /\ out.total <= out.den

\* a frame with two overlapping regions, and a pixel of the overlap where
\* both get a weight and the earlier one the larger
OverlapWitness ==
  \E c \in OverlapCases :
    LET out == FragMain(c.pixel, c.wobbles)
    IN  out.weight[c.j] > 0 /\ out.weight[c.i] > out.weight[c.j]

\* C11: the optical uniforms a draw uploads are one glassParams object as it
\* was rendered, whole, and that object is the one rendered last before the
\* loop the frame belongs to was started; between draws they do not change.
NoTornParams ==
  [][ /\ drawCalls' /= drawCalls =>
           \E cb \in rafPending :
             /\ cb \notin rafPending'
             /\ cb.ver \in 1..Len(versions)
             /\ u_params' = [f \in ParamFields |-> versions[cb.ver][f]]
      /\ drawCalls' = drawCalls => u_params' = u_params
    ]_vars

\* a frame was drawn with the parameters its loop was started with, after the
\* parent had rendered a different object and before the loop was restarted
StaleWholeParamsWitness ==
  /\ drawCalls > 0
  /\ Len(versions) > 1
  /\ u_params = versions[1]
  /\ glassParams /= versions[1]
  /\ "loop" \in dirty

\* C12: after every registry call no two entries carry the same id, and a
\* call that keeps an entry keeps the id the entry carries.
RegionIdentity ==
  [][ /\ \A i, j \in 1..Len(rectsRef') :
           i /= j => rectsRef'[i].val.id /= rectsRef'[j].val.id
      /\ \A i \in 1..Len(rectsRef), j \in 1..Len(rectsRef') :
           rectsRef'[j].key = rectsRef[i].key => rectsRef'[j].val.id = rectsRef[i].val.id
    ]_vars

\* C13: a region whose enabled flag is false stays in the registry, and no
\* frame draws it: the slot a frame gives it is not one the shader renders.
RegionDisabled(rect) == "enabled" \in DOMAIN rect /\ ~rect.enabled

DisabledRegionSkipped ==
  [][ /\ \A id \in Ids :
           (MapHas(rectsRef, id) /\ UpdateGlass(id, [enabled |-> FALSE])) =>
             (MapHas(rectsRef', id) /\ RegionDisabled(MapGet(rectsRef', id)))
      /\ drawCalls' /= drawCalls =>
           \A i \in 1..Len(frameRects') :
             RegionDisabled(frameRects'[i]) => (i - 1) \notin DrawnSlots'
    ]_vars

\* C14: a frame drawn while an id is not in the registry (it was unregistered,
\* or never registered) renders without that region: the frame's rects array
\* does not hold it, and every uniform slot holds the rectangle of the region
\* registered at that position or, past the last region, zeros with the
\* enabled flag cleared.
UnregisteredAbsent ==
  [][ drawCalls' /= drawCalls =>
        /\ \A id \in Ids :
             ~MapHas(rectsRef, id) =>
               \A i \in 1..Len(frameRects') : frameRects'[i].id /= id
        /\ u_rectCount' = Min(Len(rectsRef), MAX_RECTS)
        /\ \A i \in 0..(MAX_RECTS - 1) :
             IF i < Len(rectsRef)
               THEN u_rects'[i] =
                      <<rectsRef[i + 1].val.x * devicePixelRatio,
                        rectsRef[i + 1].val.y * devicePixelRatio,
                        rectsRef[i + 1].val.width * devicePixelRatio,
                        rectsRef[i + 1].val.height * devicePixelRatio>>
               ELSE u_rects'[i] = ZeroVec /\ u_rectParams'[i].enabled = 0
    ]_vars

\* a region was unregistered and a frame was drawn since: the registry is what
\* that frame collected, and a slot past its regions is zeroed
FrameAfterUnregisterWitness ==
  /\ lastOp.op = "unregister"
  /\ lastOp.had
  /\ drawCalls > 1
  /\ frameRects = MapValues(rectsRef)
  /\ Len(frameRects) < MaxIds
  /\ u_rects[Len(frameRects)] = ZeroVec

\* C15: once the context is lost no release call has an effect, and while the
\* component is mounted the loss is followed by a re-initialization: a live
\* context is current again, unless the component is unmounted first.
LostContextRecovers ==
  /\ [][contextLost => released' = released]_vars
  /\ []((contextLost /\ phase = "mounted")
          => <>(~contextLost \/ phase = "unmounted"))

\* the pixels the optics are compared at: inside the panels, and past a corner
OpticsPixels == { <<4, 4>>, <<15, 15>> }

\* two slots of the frame hold regions of the same geometry and parameters
SameRegion(i, j) ==
  /\ i < j
  /\ u_rects[i] = u_rects[j]
  /\ u_rectParams[i] = u_rectParams[j]

\* C16 as stated: in the last frame drawn, two slots that hold regions of the
\* same geometry and parameters give the same optics at every pixel and time
\* sampled (the noise having one value): the slot index does not matter.
OpticsIgnoreSlot ==
  drawCalls > 0 =>
    \A i, j \in DrawnSlots :
      SameRegion(i, j) =>
        \A pixel \in OpticsPixels, time \in TimeChoices, noise \in FbmChoices :
          RegionOptics(pixel, i, time, noise) = RegionOptics(pixel, j, time, noise)

\* C16, amended: the slot index of a region is one more input of its optics,
\* the phase of its wobble, and nothing else: in a frame drawn with
\* liquidWobble = 0, two slots that hold regions of the same geometry and
\* parameters give the same optics at every pixel and time sampled, whatever
\* the noise function gives for either.
OpticsDeterministic ==
  (drawCalls > 0 /\ u_params.liquidWobble = 0) =>
    \A i, j \in DrawnSlots :
      SameRegion(i, j) =>
        \A pixel \in OpticsPixels, time \in TimeChoices,
           ni \in FbmChoices, nj \in FbmChoices :
          RegionOptics(pixel, i, time, ni) = RegionOptics(pixel, j, time, nj)

\* a frame drawn with liquidWobble = 0 holds the same region in two slots, the
\* frame before having been drawn with a wobble
ZeroWobbleTwinsWitness ==
  /\ drawCalls > 1
  /\ u_params.liquidWobble = 0
  /\ \E v \in 1..Len(versions) : versions[v].liquidWobble > 0
  /\ \E i, j \in DrawnSlots : SameRegion(i, j)

\* the points p the shape distance is sampled at, in half pixels from the
\* centre of the rectangle: both coordinates range over these
PointCoords == {-9, -5, -4, 0, 2, 3, 4, 5, 6, 7, 8, 9, 10, 11}

\* the corner radius renderGlass gives slot i, in half pixels
SlotRadius(i) == (Min(u_rects[i][3], u_rects[i][4]) * u_rectParams[i].roundness) \div 2

\* sd of slot i at the point p, without wobble
ShapeSd(p, i) ==
  sdRoundedRect(p[1], p[2], u_rects[i][3], u_rects[i][4], SlotRadius(i), 0)

\* the square of the distance from p to the centre of the nearest corner arc
\* of slot i, p being in the corner square
CornerDist2(p, i) ==
  LET cx == Abs(p[1]) - (u_rects[i][3] - SlotRadius(i))
      cy == Abs(p[2]) - (u_rects[i][4] - SlotRadius(i))
  IN  cx * cx + cy * cy

\* p is in the square of a corner of slot i, where the outline is the arc
InCornerSquare(p, i) ==
  /\ Abs(p[1]) > u_rects[i][3] - SlotRadius(i)
  /\ Abs(p[2]) > u_rects[i][4] - SlotRadius(i)

\* plane geometry: p is strictly inside the rounded rectangle of slot i
StrictlyInside(p, i) ==
  /\ Abs(p[1]) < u_rects[i][3]
  /\ Abs(p[2]) < u_rects[i][4]
  /\ InCornerSquare(p, i) => CornerDist2(p, i) < SlotRadius(i) * SlotRadius(i)

\* plane geometry: p is on the outline of the rounded rectangle of slot i
OnBoundary(p, i) ==
  IF InCornerSquare(p, i)
  THEN CornerDist2(p, i) = SlotRadius(i) * SlotRadius(i)
  ELSE \/ Abs(p[1]) = u_rects[i][3] /\ Abs(p[2]) <= u_rects[i][4]
       \/ Abs(p[2]) = u_rects[i][4] /\ Abs(p[1]) <= u_rects[i][3]

DepthPoints == { <<x, y>> : x \in {-5, 0, 2, 3, 5, 7, 9}, y \in {0, 3} }

\* sd and normalizedDepth of slot i at each point, for each wobbleOffset
DepthTable(i) ==
  [p \in DepthPoints, w \in WobbleChoices |->
     LET sd == sdRoundedRect(p[1], p[2], u_rects[i][3], u_rects[i][4],
                             SlotRadius(i), w)
     IN  [sd |-> sd,
          depth |-> NormalizedDepth(sd, u_rects[i][3], u_rects[i][4])]]

\* C18 as stated: in every frame drawn, of two points on the interior side of
\* a region, the one with the larger |sd| has the smaller normalized depth,
\* or the same.
DepthNonIncreasing ==
  drawCalls > 0 =>
    \A i \in DrawnSlots :
      LET t == DepthTable(i)
      IN  \A a, b \in DOMAIN t :
            (t[a].sd < 0 /\ t[b].sd < 0 /\ Abs(t[a].sd) <= Abs(t[b].sd))
              => t[a].depth >= t[b].depth

\* C18, amended: in every frame drawn, of two points on the interior side of
\* a region, the one with the larger |sd| has the larger normalized depth, or
\* the same: the depth is non-decreasing as |sd| increases, from 0 at the
\* boundary to 1 once |sd| reaches maxDepth.
DepthNonDecreasing ==
  drawCalls > 0 =>
    \A i \in DrawnSlots :
      LET t == DepthTable(i)
          one == Min(u_rects[i][3], u_rects[i][4])
      IN  /\ \A a, b \in DOMAIN t :
               (t[a].sd < 0 /\ t[b].sd < 0 /\ Abs(t[a].sd) <= Abs(t[b].sd))
                 => t[a].depth <= t[b].depth
          /\ \A a \in DOMAIN t :
               /\ t[a].depth \in 0..one
               /\ t[a].sd >= 0 => t[a].depth = 0
               /\ 2 * (-t[a].sd) >= one => t[a].depth = one

\* a frame in which an interior point is deeper than another and has the
\* larger depth, short of 1, and a third is at depth 1
DepthWitness ==
  /\ drawCalls > 0
  /\ \E i \in DrawnSlots :
       LET t == DepthTable(i)
       IN  \E a, b, c \in DOMAIN t :
             /\ t[a].sd < 0 /\ t[b].sd < t[a].sd
             /\ t[a].depth < t[b].depth
             /\ t[b].depth < Min(u_rects[i][3], u_rects[i][4])
             /\ t[c].depth = Min(u_rects[i][3], u_rects[i][4])

\* pixels to the right of the rectangles and past their corner, with those
\* sampled inside them
PassPixels == SamplePixels \cup { <<26, 12>>, <<30, 30>> }

\* the anti-aliasing band of smoothstep(1.5, -1.0, sd), in half pixels
AaBand == 1 + 2

\* the pixels of the last frame, with the wobble offsets of its slots, that
\* are further than the band from every region drawn
OutsideCases ==
  IF drawCalls > 0 /\ frameRects = MapValues(rectsRef)
    THEN { c \in [pixel : PassPixels, wobbles : [DrawnSlots -> WobbleChoices]] :
             \A i \in DrawnSlots : GlassSd(c.pixel, i, c.wobbles[i]) > AaBand }
    ELSE {}

\* C19: in every frame drawn, a pixel further than the anti-aliasing band
\* from every region drawn gets weight 0 from every region, and the alpha of
\* the overlay there is 0: the backdrop shows through unmodified.
OutsidePassThrough ==
  \A c \in OutsideCases :
    LET out == FragMain(c.pixel, c.wobbles)
    IN  /\ out.total = 0
        /\ \A i \in DrawnSlots : out.weight[i] = 0

\* a frame with two regions and a pixel outside both, past the band of one
\* but not past the distance at which renderGlass returns early
OutsideWitness ==
  \E c \in OutsideCases :
    /\ Cardinality(DrawnSlots) > 1
    /\ \E i \in DrawnSlots : GlassSd(c.pixel, i, c.wobbles[i]) <= 4

\* C20: updateGlass(id, partial) for an id the registry holds leaves the
\* number and the order of the entries as they were, leaves every other entry
\* as it was, and in the entry of id gives every field named in partial the
\* value partial has for it and leaves every other field as it was.
UpdateMerges ==
  [][\A id \in Ids, u \in Partials :
       (UpdateGlass(id, u) /\ MapHas(rectsRef, id)) =>
         /\ Len(rectsRef') = Len(rectsRef)
         /\ \A k \in 1..Len(rectsRef) :
              /\ rectsRef'[k].key = rectsRef[k].key
              /\ rectsRef[k].key /= id => rectsRef'[k].val = rectsRef[k].val
              /\ rectsRef[k].key = id =>
                   /\ DOMAIN rectsRef'[k].val = DOMAIN rectsRef[k].val \cup DOMAIN u
                   /\ \A f \in DOMAIN u : rectsRef'[k].val[f] = u[f]
                   /\ \A f \in DOMAIN rectsRef[k].val \ DOMAIN u :
                        rectsRef'[k].val[f] = rectsRef[k].val[f]
    ]_vars

\* the last call was an updateGlass for an id the registry held, with another
\* entry beside it, and it moved the entry
UpdateMergesWitness ==
  /\ lastOp.op = "update" /\ lastOp.had
  /\ Len(rectsRef) > 1
  /\ \E k \in 1..Len(rectsRef) : \E u \in Partials :
       /\ \A f \in DOMAIN u : rectsRef[k].val[f] = u[f]
       /\ frameRects /= <<>> /\ Len(frameRects) = Len(rectsRef)
       /\ frameRects[k].id = rectsRef[k].val.id
       /\ \E f \in DOMAIN u : frameRects[k][f] /= u[f]

\* the sum of f over the set S of its arguments
RECURSIVE SumOver(_, _)
SumOver(f, S) ==
  IF S = {} THEN 0
  ELSE LET x == CHOOSE y \in S : TRUE IN f[x] + SumOver(f, S \ {x})

\* AlphaOne to the power n
RECURSIVE AlphaPow(_)
AlphaPow(n) == IF n = 0 THEN 1 ELSE AlphaOne * AlphaPow(n - 1)

\* the pixels sampled in the last frame, with the wobble offsets of its slots,
\* when it draws at least one region
BlendCases ==
  IF drawCalls > 0 /\ frameRects = MapValues(rectsRef) /\ DrawnSlots /= {}
    THEN [pixel : SamplePixels, wobbles : [DrawnSlots -> WobbleChoices]]
    ELSE {}

\* the blend weights of main() at the pixel, as numerators over
\* AlphaOne to the number of slots drawn
BlendWeights(c) ==
  LET out == FragMain(c.pixel, c.wobbles)
      scale == AlphaPow(Cardinality(DrawnSlots)) \div out.den
  IN  [total |-> out.total * scale,
       weight |-> [i \in DrawnSlots |-> out.weight[i] * scale]]

\* C21: in every frame drawn, at every pixel sampled, the blend weight of
\* slot i is its alpha times (1 minus the sum of the weights of the slots
\* before it), that sum never decreases along the slots and lies in [0, 1],
\* and the alpha written is the sum of all the weights.
FrontToBack ==
  \A c \in BlendCases :
    LET b == BlendWeights(c)
        one == AlphaPow(Cardinality(DrawnSlots))
        before(i) == SumOver(b.weight, { j \in DrawnSlots : j < i })
    IN  /\ \A i \in DrawnSlots :
             /\ b.weight[i] * AlphaOne
                  = GlassAlpha(c.pixel, i, c.wobbles[i]) * (one - before(i))
             /\ b.weight[i] >= 0
             /\ before(i) \in 0..one
             /\ before(i) + b.weight[i] \in before(i)..one
        /\ b.total = SumOver(b.weight, DrawnSlots)
        /\ b.total \in 0..one

\* a pixel at which two regions are both partly transparent: the second has a
\* weight, smaller than its alpha
FrontToBackWitness ==
  \E c \in BlendCases :
    \E i, j \in DrawnSlots :
      LET b == BlendWeights(c)
          ai == GlassAlpha(c.pixel, i, c.wobbles[i])
          aj == GlassAlpha(c.pixel, j, c.wobbles[j])
      IN  /\ i < j
          /\ ai \in 1..(AlphaOne - 1)
          /\ aj \in 1..(AlphaOne - 1)
          /\ b.weight[j] > 0
          /\ b.weight[j] * AlphaOne < aj * AlphaPow(Cardinality(DrawnSlots))

\* the calls of the queue that name the field f
NamingCalls(f) == { k \in 1..Len(paramUpdates) : f \in DOMAIN paramUpdates[k] }

\* the last of the calls in K
LastCall(K) == CHOOSE k \in K : \A j \in K : j <= k

\* C22: a setParams call changes no parameter by itself, it is queued behind
\* the calls not yet rendered; the render that follows gives every field the
\* value of the last queued call that names it, keeps the fields no queued
\* call names, empties the queue and publishes the result as one new
\* parameters object.
SetParamsMerges ==
  [][ /\ \A newParams \in ParamPartials :
           SetParams(newParams) =>
             /\ glassParams' = glassParams
             /\ paramUpdates' = Append(paramUpdates, newParams)
      /\ RenderParams =>
           /\ DOMAIN glassParams' = ParamFields
           /\ \A f \in ParamFields :
                glassParams'[f] =
                  IF NamingCalls(f) = {}
                    THEN glassParams[f]
                    ELSE paramUpdates[LastCall(NamingCalls(f))][f]
           /\ paramUpdates' = <<>>
           /\ versions' = Append(versions, glassParams')
    ]_vars

\* one render has applied two calls: the preset, then the blur slider
TwoCallsOneRenderWitness ==
  /\ Len(versions) = 2
  /\ paramUpdates = <<>>
  /\ glassParams.refraction = 133
  /\ glassParams.blur = 400

\* C23: LiquidGlass issues no draw call while the texture bgTextureRef holds
\* has no image in it: every draw finds the backdrop loaded, whatever the
\* order of prop changes, renders and load completions.
LgDrawsLoaded ==
  [][drawCalls' /= drawCalls => (bgTextureRef /\ texImage /= 0)]_vars

\* LiquidGlass is mounted with its effects run, its program linked, and the
\* image of the current backgroundImage in its texture
LgLive ==
  /\ phase = "mounted"
  /\ dirty = {} /\ effectQueue = <<>>
  /\ programRef /\ bgTextureRef
  /\ texImage = backgroundImage

LateLoadIgnored ==
  [][\A i \in 1..Len(imgs), throws \in BOOLEAN :
       (ImgOnload(i, throws) /\ ~imgs[i].isMounted) =>
         /\ texImage' = texImage
         /\ isReady' = isReady
         /\ dirty' = dirty
    ]_vars

\* the image of the current backgroundImage is in the texture, and the load
\* it superseded, of another image, is still to complete
LateLoadWitness ==
  /\ phase = "mounted"
  /\ glRef /\ bgTextureRef
  /\ effectQueue = <<>>
  /\ texImage = backgroundImage
  /\ \E i \in 1..Len(imgs) : ~imgs[i].isMounted /\ imgs[i].src /= texImage

\* the component is mounted and ready, its loop effect has run, and React is
\* not in the middle of a flush
LoopRunning ==
  /\ phase = "mounted"
  /\ isReady
  /\ effectQueue = <<>>
  /\ "loop" \in cleanups

\* C26: there are never two frame callbacks pending; while the loop runs
\* there is exactly one, the one rafRef names, also after a restart of the
\* loop by a change of the optical props or of the window dimensions; and
\* every frame that draws leaves one callback pending, a new one.
SingleFrameLoop ==
  /\ [](Cardinality(rafPending) <= 1)
  /\ [](LoopRunning =>
          /\ Cardinality(rafPending) = 1
          /\ \A cb \in rafPending : cb.id = rafRef)
  /\ [][drawCalls' /= drawCalls =>
          /\ Cardinality(rafPending') = 1
          /\ rafPending' \cap rafPending = {}
          /\ \A cb \in rafPending' : cb.id = rafRef']_vars

\* frames have been drawn and the loop runs after two restarts, one by a
\* change of the window dimensions and one by a change of the optical props
LoopRestartedWitness ==
  /\ LoopRunning
  /\ drawCalls > 1
  /\ \E cb \in rafPending : cb.dims /= 800 /\ cb.ver > 1

\* the keys of the map in iteration order
MapKeys(m) == [i \in 1..Len(m) |-> m[i].key]

\* C27: updateGlass on an id the registry holds and registerGlass on an id it
\* holds leave the order of the entries as it was; no registry call changes
\* the relative order of two entries that stay; registerGlass on an id the
\* registry does not hold (never registered, or unregistered before) puts
\* the entry last; and a frame snapshots and uploads the entries in that
\* order.
DrawOrderStable ==
  [][ /\ \A id \in Ids, u \in Partials :
           (UpdateGlass(id, u) /\ MapHas(rectsRef, id)) =>
             MapKeys(rectsRef') = MapKeys(rectsRef)
      /\ \A rect \in RectChoices(Ids) :
           RegisterGlass(rect) =>
             IF MapHas(rectsRef, rect.id)
               THEN MapKeys(rectsRef') = MapKeys(rectsRef)
               ELSE MapKeys(rectsRef') = Append(MapKeys(rectsRef), rect.id)
      /\ \A a, b \in Ids :
           ( /\ MapHas(rectsRef, a) /\ MapHas(rectsRef, b)
             /\ MapHas(rectsRef', a) /\ MapHas(rectsRef', b)
             /\ MapIndex(rectsRef, a) < MapIndex(rectsRef, b) )
           => MapIndex(rectsRef', a) < MapIndex(rectsRef', b)
      /\ drawCalls' /= drawCalls =>
           /\ frameRects' = MapValues(rectsRef)
           /\ \A i \in 1..Len(rectsRef) :
                u_rects'[i - 1] = <<rectsRef[i].val.x * devicePixelRatio,
                                    rectsRef[i].val.y * devicePixelRatio,
                                    rectsRef[i].val.width * devicePixelRatio,
                                    rectsRef[i].val.height * devicePixelRatio>>
    ]_vars

\* the first of two entries was registered again, with another rectangle than
\* the frame before had drawn for it, and a frame has drawn it in place
ReRegisteredInPlaceWitness ==
  /\ lastOp.op = "register" /\ lastOp.had
  /\ Len(rectsRef) = 2
  /\ drawCalls > 1
  /\ Len(frameRects) = 2
  /\ frameRects[2] = rectsRef[2].val
  /\ frameRects[1].id = rectsRef[1].val.id
  /\ frameRects[1] /= rectsRef[1].val

\* the ways initialization stops early with an object created and not deleted
\* by createShader itself
InitStopsEarly == initResult \in {"vsFail", "fsFail", "programNull", "linkFail"}

\* the component has unmounted and every cleanup it had has run
Unmounted == phase = "unmounted" /\ dirty = {} /\ effectQueue = <<>> /\ cleanups = {}

\* C28: when initialization stopped early (one stage failed to compile after
\* the other compiled, createProgram returned null, or the link failed) and
\* the component has been torn down on a live context, every shader and
\* program object the attempt created has been deleted.
FailedInitLeaksNothing ==
  (Unmounted /\ InitStopsEarly /\ ~contextLost) =>
    \A o \in created \cap {"vertexShader", "fragmentShader", "program"} :
      released[o] >= 1

\* the cursor: pointer events, commits, parameter changes, unmount. No state
\* of this specification has a frame callback pending or a cleanup registered
\* (CursorNeverStarts), so the frame callback and the cleanups of the two
\* effects are never enabled and are not among its steps
NextCursor ==
  \/ CursorMount
  \/ Unmount
  \/ BeginFlush
  \/ CursorInitEffect
  \/ CursorLoopEffect
  \/ handleMouseMove
  \/ handleLeave
  \/ handleEnter
  \/ CursorCommit
  \/ \E newParams \in ParamPartials : SetParams(newParams)
  \/ CursorRenderParams

SpecCursor == Init /\ [][NextCursor]_vars

\* React flushes the effects it queued and commits the renders it scheduled;
\* pointer events and parameter changes may or may not come
CursorFairness ==
  /\ WF_vars(BeginFlush)
  /\ WF_vars(CursorInitEffect \/ CursorLoopEffect)
  /\ WF_vars(CursorCommit)
  /\ WF_vars(CursorRenderParams)

SpecCursorFair == SpecCursor /\ CursorFairness

\* the cursor's context and program are set up and a frame has been drawn or
\* is scheduled
CursorLive == glRef /\ programRef /\ (drawCalls > 0 \/ rafPending /= {})

\* C29: once the cursor is visible with its canvas mounted, and as long as it
\* stays so, the context and the program are eventually initialized and a
\* cursor frame is scheduled or drawn.
CursorBecomesLive ==
  (phase = "mounted" /\ visible /\ canvasRef)
    ~> (phase /= "mounted" \/ ~visible \/ CursorLive)

\* the init effect has never found a canvas: no context, no program, no frame
\* callback, no cleanup
CursorNeverStarts ==
  /\ initResult \in {"none", "noCanvas"}
  /\ ~glRef /\ ~programRef
  /\ rafPending = {}
  /\ cleanups = {}
  /\ drawCalls = 0

\* calls of injectFilters and removeFilters in any order
NextFilters ==
  \/ \E customFilters \in CustomFilterChoices : injectFilters(customFilters)
  \/ removeFilters

SpecFilters == Init /\ [][NextFilters]_vars

\* the calls since the last removeFilters
RECURSIVE SinceRemove(_)
SinceRemove(calls) ==
  IF calls = <<>> \/ calls[Len(calls)].op = "remove" THEN <<>>
  ELSE Append(SinceRemove(SubSeq(calls, 1, Len(calls) - 1)), calls[Len(calls)])

\* C30: the document holds at most one .glacier-filters element, and when it
\* holds one, its filters are those of the first injectFilters call since
\* the last removeFilters; injectFilters with an element present changes
\* nothing in the document, whatever customFilters it is given; removeFilters
\* with none present changes nothing; injectFilters with none present
\* inserts, as first child of the body, an element no earlier call created.
FilterInjectionIdempotent ==
  /\ [](Cardinality(FilterElements(body)) <= 1)
  /\ [](IF SinceRemove(filterCalls) = <<>>
          THEN FilterElements(body) = {}
          ELSE /\ FilterElements(body) = {1}
               /\ body[1].defs = createFiltersSVG(SinceRemove(filterCalls)[1].custom))
  /\ [][ /\ \A c \in CustomFilterChoices :
              injectFilters(c) =>
                IF FilterElements(body) /= {}
                  THEN body' = body
                  ELSE /\ FilterElements(body') = {1}
                       /\ body'[1].defs = createFiltersSVG(c)
                       /\ Tail(body') = body
                       /\ body'[1].serial = FiltersCreated + 1
         /\ removeFilters =>
              IF FilterElements(body) = {}
                THEN body' = body
                ELSE FilterElements(body') = {}
       ]_vars

\* a second injectFilters call with other customFilters was made while the
\* element of the first was in the document, then the element was removed and
\* filters were injected again
InjectedAgainWitness ==
  /\ Len(filterCalls) >= 4
  /\ filterCalls[1].op = "inject" /\ ~filterCalls[1].had
  /\ filterCalls[2].op = "inject" /\ filterCalls[2].had
  /\ filterCalls[2].custom /= filterCalls[1].custom
  /\ filterCalls[3].op = "remove" /\ filterCalls[3].had
  /\ filterCalls[4].op = "inject" /\ ~filterCalls[4].had
  /\ filterCalls[4].custom /= filterCalls[1].custom
  /\ FilterElements(body) = {1}
  /\ body[1].serial = 2

====
